---- MODULE Spec2Model ----
(***************************************************************************)
(* Model of src/components/repo-detail.tsx (RepoDetail): the selected      *)
(* commit (selectedSha), its synchronisation with the URL query string     *)
(* (history.location.search), the reconciliation done in the useCommits    *)
(* onSuccess callback, and the values derived at render time               *)
(* (parsedCommit, selectedShaPrevious).                                    *)
(*                                                                         *)
(* One action is one event handled by the component together with the      *)
(* re-render and the passive effect that the event's state update causes.  *)
(***************************************************************************)
EXTENDS Integers, Sequences, FiniteSets, TLC

\* Longest commit list delivered by the commit query.
MaxLen == 3

\* JavaScript's undefined, and the outcome of reading a property of undefined.
Undefined == "undefined"
TypeError == "TypeError"

\* Commit identifiers the repository can contain.
Shas == {"c1", "c2", "c3"}

\* Values of the URL's sha parameter at startup: absent, empty, a commit of
\* the repository, or an identifier no commit carries.
UrlShas == Shas \cup {Undefined, "", "deadbeef"}

\* Values of the URL's key parameter at startup.
Keys == {Undefined, "k1"}

\* A commit as the component reads it: commit.sha and commit.commit.message.
CommitOf(s) ==
  [sha |-> s, message |-> CASE s = "c1" -> "m1" [] s = "c2" -> "m2" [] OTHER -> "m3"]

\* The lists useCommits can deliver: newest first, identifiers unique.
CommitLists ==
  { [i \in 1..Len(q) |-> CommitOf(q[i])] :
      q \in { p \in UNION { [1..n -> Shas] : n \in 0..MaxLen } :
                \A i, j \in 1..Len(p) : i # j => p[i] # p[j] } }

\* commits.map((commit) => commit.sha)
Ids(cs) == { cs[i].sha : i \in 1..Len(cs) }

\* qs.parse: a parameter that is not in the search string reads as undefined.
QsParse(s) ==
  [f \in {"sha", "key"} |-> IF f \in DOMAIN s THEN s[f] ELSE Undefined]

\* qs.stringify: fields whose value is undefined are left out.
QsStringify(obj) ==
  [f \in {g \in DOMAIN obj : obj[g] # Undefined} |-> obj[f]]

\* (parsedQueryString?.sha as string) || ""
InitialSelectedSha(s) ==
  LET v == QsParse(s).sha IN IF v = Undefined \/ v = "" THEN "" ELSE v

VARIABLES
  selectedSha,        \* React state selectedSha
  search,             \* history.location.search, as its parameters
  yamlQueryStatus,    \* status of useFlatYaml
  isFlatRepo,         \* data of useFlatYaml
  commitQueryStatus,  \* status of useCommits
  commits,            \* data of useCommits (default [])
  toasts,             \* toast.error calls made by the last event
  pushes,             \* history.push calls made by the last event
  thrown,             \* the last event's handler threw
  crashed,            \* a render threw: the component is torn down
  lastEvent           \* the event processed last

vars == <<selectedSha, search, yamlQueryStatus, isFlatRepo, commitQueryStatus,
          commits, toasts, pushes, thrown, crashed, lastEvent>>

\* Faulty variant: only the first commit is compared with selectedSha.
SomeSha_FirstOnly(cs, sel) == Len(cs) > 0 /\ cs[1].sha = sel

\* commits.some((commit) => commit.sha === selectedSha)
SomeSha(cs, sel) == \E i \in 1..Len(cs) : cs[i].sha = sel

\* commits.findIndex((d) => d.sha === selectedSha), 0-based, -1 when absent
FindIndex(cs, sel) ==
  IF SomeSha(cs, sel)
  THEN (CHOOSE i \in 1..Len(cs) :
          cs[i].sha = sel /\ \A j \in 1..(i - 1) : cs[j].sha # sel) - 1
  ELSE -1

\* Faulty variant: the oldest commit is taken for the most recent one.
MostRecentCommitSha_Last(cs) == IF Len(cs) = 0 THEN TypeError ELSE cs[Len(cs)].sha

\* commits[0].sha: reading .sha of undefined throws when the list is empty
MostRecentCommitSha(cs) == IF Len(cs) = 0 THEN TypeError ELSE cs[1].sha

\* selectedShaIndex !== -1 ? commits[selectedShaIndex + 1].sha : undefined
SelectedShaPrevious(cs, sel) ==
  LET selectedShaIndex == FindIndex(cs, sel) IN
  IF selectedShaIndex # -1
  THEN IF selectedShaIndex + 1 < Len(cs)
       THEN cs[selectedShaIndex + 2].sha
       ELSE TypeError
  ELSE Undefined

\* commits?.find((commit) => commit.sha === selectedSha)?.commit.message
FindMessage(cs, sel) ==
  IF SomeSha(cs, sel) THEN cs[FindIndex(cs, sel) + 1].message ELSE Undefined

\* selectedSha ? parseFlatCommitMessage(...) : null
ParserCalled(sel) == sel # ""
ParserArg(cs, sel) == FindMessage(cs, sel)

\* The render function throws when one of its expressions throws.
RenderThrows(cs, sel) == SelectedShaPrevious(cs, sel) = TypeError

\* Body of the effect on selectedSha: push the sha, keep the current key.
UrlEffect(sel, srch) ==
  IF sel # ""
  THEN [search |-> QsStringify([sha |-> sel, key |-> QsParse(srch).key]),
        pushes |-> 1]
  ELSE [search |-> srch, pushes |-> 0]

\* The effect runs after a committed render in which selectedSha changed.
EffectAfter(prev, sel, srch, crash) ==
  IF ~crash /\ sel # prev THEN UrlEffect(sel, srch)
  ELSE [search |-> srch, pushes |-> 0]

\* Faulty variant: a selection missing from the list is left as it is.
OnSuccess_NoRecovery(cs, sel, srch) ==
  LET mostRecentCommitSha == MostRecentCommitSha(cs) IN
  IF mostRecentCommitSha = TypeError
  THEN [threw |-> TRUE, sel |-> sel, search |-> srch, toasts |-> 0, pushes |-> 0]
  ELSE IF sel # ""
  THEN [threw |-> FALSE, sel |-> sel, search |-> srch, toasts |-> 0, pushes |-> 0]
  ELSE [threw |-> FALSE, sel |-> mostRecentCommitSha, search |-> srch,
        toasts |-> 0, pushes |-> 0]

\* onSuccess of useCommits, with the selectedSha and URL it sees.
OnSuccess(cs, sel, srch) ==
  LET mostRecentCommitSha == MostRecentCommitSha(cs) IN
  IF mostRecentCommitSha = TypeError
  THEN [threw |-> TRUE, sel |-> sel, search |-> srch, toasts |-> 0, pushes |-> 0]
  ELSE IF Len(cs) > 0
  THEN IF sel # ""
       THEN IF SomeSha(cs, sel)
            THEN [threw |-> FALSE, sel |-> sel, search |-> srch,
                  toasts |-> 0, pushes |-> 0]
            ELSE [threw |-> FALSE, sel |-> mostRecentCommitSha,
                  search |-> QsStringify([sha |-> mostRecentCommitSha]),
                  toasts |-> 1, pushes |-> 1]
       ELSE [threw |-> FALSE, sel |-> mostRecentCommitSha, search |-> srch,
             toasts |-> 0, pushes |-> 0]
  ELSE [threw |-> FALSE, sel |-> sel, search |-> srch, toasts |-> 0, pushes |-> 0]

\* Faulty variant: the Picker is rendered whatever the queries' status.
PickerVisible_Always == TRUE

\* The Picker is rendered once both queries have succeeded.
PickerVisible ==
  yamlQueryStatus = "success" /\ commitQueryStatus = "success"

\* items={commits.map((commit) => commit.sha)}
PickerItems == Ids(commits)

Init ==
  /\ search \in { QsStringify([sha |-> s, key |-> k]) : s \in UrlShas, k \in Keys }
  /\ selectedSha = InitialSelectedSha(search)
  /\ yamlQueryStatus = "loading"
  /\ isFlatRepo = Undefined
  /\ commitQueryStatus = "idle"
  /\ commits = <<>>
  /\ toasts = 0
  /\ pushes = 0
  /\ thrown = FALSE
  /\ crashed = FALSE
  /\ lastEvent = "init"

\* First render and the effect that runs on mount.
Mount ==
  /\ lastEvent = "init"
  /\ LET e == UrlEffect(selectedSha, search) IN
       /\ search' = e.search
       /\ pushes' = e.pushes
  /\ lastEvent' = "mount"
  /\ UNCHANGED <<selectedSha, yamlQueryStatus, isFlatRepo, commitQueryStatus,
                 commits, toasts, thrown, crashed>>

\* useFlatYaml settles; the commit query is enabled when its data is true.
YamlLoaded ==
  /\ lastEvent # "init"
  /\ ~crashed
  /\ yamlQueryStatus = "loading"
  /\ \E r \in {"flat", "notflat", "error"} :
       /\ yamlQueryStatus' = IF r = "error" THEN "error" ELSE "success"
       /\ isFlatRepo' = IF r = "error" THEN Undefined ELSE (IF r = "flat" THEN "true" ELSE "false")
       /\ commitQueryStatus' = IF r = "flat" THEN "loading" ELSE commitQueryStatus
  /\ lastEvent' = "yaml"
  /\ toasts' = 0
  /\ pushes' = 0
  /\ thrown' = FALSE
  /\ UNCHANGED <<selectedSha, search, commits, crashed>>

\* useCommits delivers a list: onSuccess, re-render, effect.  The query's
\* data is the delivered list also when onSuccess throws; a render that
\* throws is not committed, so its effect does not run.
ListLoaded ==
  /\ ~crashed
  /\ isFlatRepo = "true"
  /\ \E list \in CommitLists :
       LET r == OnSuccess(list, selectedSha, search)
           crash == RenderThrows(list, r.sel)
           e == EffectAfter(selectedSha, r.sel, r.search, crash)
       IN /\ commits' = list
          /\ commitQueryStatus' = "success"
          /\ selectedSha' = r.sel
          /\ search' = e.search
          /\ toasts' = r.toasts
          /\ pushes' = r.pushes + e.pushes
          /\ thrown' = r.threw
          /\ crashed' = crash
  /\ lastEvent' = "loaded"
  /\ UNCHANGED <<yamlQueryStatus, isFlatRepo>>

\* useCommits fails: no onSuccess, the data is kept.
ListFailed ==
  /\ ~crashed
  /\ isFlatRepo = "true"
  /\ commitQueryStatus' = "error"
  /\ lastEvent' = "failed"
  /\ toasts' = 0
  /\ pushes' = 0
  /\ thrown' = FALSE
  /\ UNCHANGED <<selectedSha, search, yamlQueryStatus, isFlatRepo, commits, crashed>>

\* The user picks an item of the Picker: setSelectedSha, re-render, effect.
UserPick ==
  /\ ~crashed
  /\ PickerVisible
  /\ \E sha \in PickerItems :
       LET crash == RenderThrows(commits, sha)
           e == EffectAfter(selectedSha, sha, search, crash)
       IN /\ selectedSha' = sha
          /\ search' = e.search
          /\ pushes' = e.pushes
          /\ crashed' = crash
  /\ lastEvent' = "pick"
  /\ toasts' = 0
  /\ thrown' = FALSE
  /\ UNCHANGED <<yamlQueryStatus, isFlatRepo, commitQueryStatus, commits>>

Next == Mount \/ YamlLoaded \/ ListLoaded \/ ListFailed \/ UserPick

Spec == Init /\ [][Next]_vars


(***************************************************************************)
(* Properties                                                              *)
(***************************************************************************)

\* C1: once a list has been loaded, Selection is empty and the commit list
\* is empty, or Selection is the identifier of a commit of the list.
C1_Claim ==
  commitQueryStatus = "success" =>
    \/ selectedSha = "" /\ commits = <<>>
    \/ selectedSha \in Ids(commits)

\* C2: a list-loaded event that delivers an empty list completes without an
\* error and leaves Selection empty, whatever the URL requested.
C2_Claim ==
  (lastEvent = "loaded" /\ commits = <<>>) => (~thrown /\ selectedSha = "")

\* C3: the previous-commit lookup never fails: it yields the identifier that
\* follows the selected one, and undefined when the selected identifier is
\* the last of the list or is not in the list.
C3_Claim ==
  SelectedShaPrevious(commits, selectedSha) =
    IF \E i \in 1..(Len(commits) - 1) : commits[i].sha = selectedSha
    THEN commits[(CHOOSE i \in 1..(Len(commits) - 1) : commits[i].sha = selectedSha) + 1].sha
    ELSE Undefined

\* C4: a list-loaded event with a non-empty list that lacks the non-empty
\* requested identifier selects the first commit, emits exactly one warning
\* and leaves the URL carrying the new Selection.
C4_StaleRecovery ==
  [][ (/\ lastEvent' = "loaded"
       /\ commits' # <<>>
       /\ selectedSha # ""
       /\ selectedSha \notin Ids(commits'))
      => (/\ selectedSha' = commits'[1].sha
          /\ toasts' = 1
          /\ QsParse(search').sha = selectedSha') ]_vars

\* A stale identifier was replaced by the most recent of several commits.
C4_Witness ==
  /\ lastEvent = "loaded"
  /\ toasts = 1
  /\ Len(commits) > 1
  /\ selectedSha = commits[1].sha
  /\ QsParse(search).sha = selectedSha

\* C5: a change of Selection causes at most one URL write, and a list-loaded
\* or user-pick event that leaves Selection unchanged causes none.
C5_Claim ==
  [][ /\ (selectedSha' # selectedSha => pushes' <= 1)
      /\ ((selectedSha' = selectedSha /\ lastEvent' \in {"loaded", "pick"})
            => pushes' = 0) ]_vars

\* C6: after every event, the URL's sha parameter equals Selection whenever
\* Selection is non-empty.
C6_Claim ==
  (lastEvent # "init" /\ selectedSha # "") => QsParse(search).sha = selectedSha

\* C7: a list-loaded event with a non-empty list that contains the non-empty
\* requested identifier keeps Selection equal to it and emits no warning.
C7_FreshPickHonored ==
  [][ (/\ lastEvent' = "loaded"
       /\ commits' # <<>>
       /\ selectedSha # ""
       /\ selectedSha \in Ids(commits'))
      => (selectedSha' = selectedSha /\ toasts' = 0) ]_vars

\* A requested identifier that is not the most recent commit was honoured.
C7_Witness ==
  /\ lastEvent = "loaded"
  /\ toasts = 0
  /\ ~crashed
  /\ selectedSha \in Ids(commits)
  /\ selectedSha # commits[1].sha

\* C8: a user pick happens only once a loaded list has been reconciled to a
\* Selection of that list, and a non-empty Selection is changed only by a
\* user pick or by a list-loaded event whose list no longer contains it.
C8_PickOrdering ==
  [][ /\ (lastEvent' = "pick"
            => (commitQueryStatus = "success" /\ selectedSha \in Ids(commits)))
      /\ ((selectedSha # "" /\ selectedSha' # selectedSha)
            => \/ lastEvent' = "pick"
               \/ (lastEvent' = "loaded" /\ selectedSha \notin Ids(commits'))) ]_vars

\* A user pick of a commit other than the most recent one has been applied.
C8_Witness ==
  /\ lastEvent = "pick"
  /\ ~crashed
  /\ pushes = 1
  /\ selectedSha \in Ids(commits)
  /\ selectedSha # commits[1].sha

\* C9: whenever the parser is called, Selection is non-empty and identifies a
\* commit of the current list, whose message the parser receives.
C9_Claim ==
  (lastEvent # "init" /\ ParserCalled(selectedSha)) =>
    /\ selectedSha # ""
    /\ \E i \in 1..Len(commits) :
         commits[i].sha = selectedSha /\ ParserArg(commits, selectedSha) = commits[i].message

\* C9 (amended): the parser is called only with a non-empty Selection; when
\* the commit list is non-empty Selection identifies one of its commits and
\* the parser receives that commit's message; while the list is empty the
\* parser receives undefined.
C9_Amended ==
  (lastEvent # "init" /\ ParserCalled(selectedSha)) =>
    /\ selectedSha # ""
    /\ IF commits # <<>>
       THEN \E i \in 1..Len(commits) :
              commits[i].sha = selectedSha /\ ParserArg(commits, selectedSha) = commits[i].message
       ELSE ParserArg(commits, selectedSha) = Undefined

\* After a stale identifier was replaced, the parser receives the message of
\* the most recent commit.
C9_Witness ==
  /\ lastEvent = "loaded"
  /\ toasts = 1
  /\ ~crashed
  /\ ParserCalled(selectedSha)
  /\ ParserArg(commits, selectedSha) = commits[1].message

\* C10: no step changes the URL's key parameter.
C10_Claim ==
  [][ QsParse(search').key = QsParse(search).key ]_vars
====
